---- MODULE Spec2Model ----
(***************************************************************************)
(* HornetHive identity core: auth.js (ensureUniqueUsername, signupUser,    *)
(* loginUserByUsername) and the approve / reject routes of server.js,      *)
(* running against the shared `users` table.                               *)
(*                                                                         *)
(* Strings are sequences of one-character strings, so that toLowerCase,    *)
(* startsWith, template concatenation and ILIKE matching are computed.     *)
(* Every `await` on the store or on bcrypt is a point where other requests *)
(* may run; each handler is split into actions at those points.            *)
(***************************************************************************)
EXTENDS Integers, Sequences, FiniteSets, TLC

VARIABLES store, proc, last, calls

vars == <<store, proc, last, calls>>

(* ---------------------------------------------------------------- bounds *)
\* total number of workflow invocations in one behaviour
MaxCalls == 2

\* concurrently running requests
Procs == {"r1", "r2"}

(* ---------------------------------------------------------------- strings *)
\* JavaScript undefined / SQL NULL for a string-valued field
Missing == <<"<undefined>">>

Lower(c) == IF c = "A" THEN "a" ELSE IF c = "B" THEN "b" ELSE c

\* String.prototype.toLowerCase
RECURSIVE toLowerCase(_)
toLowerCase(s) ==
  IF s = <<>> THEN <<>> ELSE <<Lower(Head(s))>> \o toLowerCase(Tail(s))

\* String.prototype.startsWith
startsWith(s, prefix) ==
  /\ Len(s) >= Len(prefix)
  /\ SubSeq(s, 1, Len(prefix)) = prefix

Digits == <<"0", "1", "2", "3", "4", "5", "6", "7", "8", "9">>

\* the decimal rendering of n inside a template literal `${n}`
RECURSIVE Decimal(_)
Decimal(n) ==
  IF n < 10 THEN <<Digits[n + 1]>>
  ELSE Decimal(n \div 10) \o <<Digits[(n % 10) + 1]>>

\* PostgreSQL  s ILIKE pattern : % matches any run of characters, _ any one
\* character, every other character matches itself ignoring case
RECURSIVE Like(_, _)
Like(s, pat) ==
  IF pat = <<>> THEN s = <<>>
  ELSE IF Head(pat) = "%"
    THEN \/ Like(s, Tail(pat))
         \/ s # <<>> /\ Like(Tail(s), pat)
  ELSE /\ s # <<>>
       /\ Head(pat) = "_" \/ Lower(Head(s)) = Lower(Head(pat))
       /\ Like(Tail(s), Tail(pat))

ilike(s, pat) == s # Missing /\ Like(s, pat)

(* ---------------------------------------------------------------- bcrypt *)
HashMarker == <<"$", "2">>

Salts == {"s"}

\* a hash that hands back the plaintext
bcryptHash_Plain(plain, salt) == plain

\* bcrypt.hash(plain, SALT_ROUNDS) with the salt it drew: marker, salt, digest
bcryptHash(plain, salt) == HashMarker \o <<salt>> \o plain

\* bcrypt.compare(plain, stored): false for anything that is no well-formed hash
bcryptCompare(plain, stored) ==
  /\ startsWith(stored, HashMarker)
  /\ Len(stored) >= 3
  /\ stored[3] \in Salts
  /\ SubSeq(stored, 4, Len(stored)) = plain

(* ---------------------------------------------------------------- inputs *)
Emails == {"e1", "e2"}

\* usernames a caller may send: equal ignoring case, a suffixed one, a wildcard
Usernames == {<<"a">>, <<"A">>}

LoginNames == {<<"A">>, <<"%">>}

Passwords == {<<"p">>, <<>>, Missing}

\* passwords a signup request may carry
SignupPasswords == {<<"p">>, Missing}

\* values new Date() may yield, counted in months
Times == {1}

\* the request body of /api/signup: whatever the caller put in it
Candidates ==
  [email : Emails, username : Usernames, password : SignupPasswords,
   approved : BOOLEAN, password_fresh : {0}, password_expire : {0},
   role : {"user"}, active : {TRUE}]

\* how a call on the store client can end: a result, an {error} result, a
\* rejected promise
Outcomes == {"ok", "error", "throw"}

\* how bcrypt.hash can end
HashOutcomes == {"ok", "throw"}

(* ---------------------------------------------------------------- store *)
\* data: null
Null == [null |-> TRUE]

Rows(s) == {s[i] : i \in DOMAIN s}

\* .from('users').select(..).eq('email', email)
SelectByEmail(s, email) == {r \in Rows(s) : r.email = email}

\* .from('users').select(..).ilike('username', pattern)
SelectByUsername(s, pattern) == {r \in Rows(s) : ilike(r.username, pattern)}

\* .maybeSingle(): the row, null for no row, an error for several rows
maybeSingle(rows) ==
  IF Cardinality(rows) = 1 THEN [data |-> CHOOSE r \in rows : TRUE, error |-> FALSE]
  ELSE IF rows = {} THEN [data |-> Null, error |-> FALSE]
  ELSE [data |-> Null, error |-> TRUE]

\* .single(): the row, an error for no row or several rows
single(rows) ==
  IF Cardinality(rows) = 1 THEN [data |-> CHOOSE r \in rows : TRUE, error |-> FALSE]
  ELSE [data |-> Null, error |-> TRUE]

\* a store call that returned {data: null, error}
Failed == [data |-> Null, error |-> TRUE]

\* an insert sent to another table: success reported, no row added to users
Insert_Dropped(s, row) == s

\* .insert([row]): the store assigns the id
Insert(s, row) ==
  Append(s, [id |-> Len(s) + 1, email |-> row.email, username |-> row.username,
             password |-> row.password, approved |-> row.approved,
             password_fresh |-> row.password_fresh,
             password_expire |-> row.password_expire,
             role |-> row.role, active |-> row.active])

\* an update whose filter matches no row
UpdatePassword_NoRow(s, id, newHash) == s

\* an update without its filter
UpdatePassword_AllRows(s, id, newHash) ==
  [i \in DOMAIN s |-> [s[i] EXCEPT !.password = newHash]]

\* .update({ password: newHash }).eq('id', id)
UpdatePassword(s, id, newHash) ==
  [i \in DOMAIN s |-> IF s[i].id = id THEN [s[i] EXCEPT !.password = newHash] ELSE s[i]]

\* .update({ approved: flag }).eq('email', email)
UpdateApproved(s, email, flag) ==
  [i \in DOMAIN s |-> IF s[i].email = email THEN [s[i] EXCEPT !.approved = flag] ELSE s[i]]

\* rows written before hashing was introduced: plaintext or no password at all
LegacyRows ==
  [id : {1}, email : {"e1"}, username : {<<"a">>}, password : {<<"p">>, Missing},
   approved : {TRUE}, password_fresh : {0}, password_expire : {3},
   role : {"admin"}, active : {TRUE}]

InitStores == {<<>>} \cup {<<r>> : r \in LegacyRows}

(* ---------------------------------------------------------------- results *)
Error(msg) == [kind |-> "error", error |-> msg]

DuplicateEmail == Error("Email already registered")
SignupOk == [kind |-> "message", message |-> "Signup successful, awaiting approval"]
AccountNotFound == Error("No account found")
PendingApproval == Error("Account awaiting approval")
IncorrectPassword == Error("Incorrect password")
\* err.message of a rejected store call, of bcrypt.hash, of bcrypt.compare
FetchFailed == Error("fetch failed")
HashFailed == Error("data and salt arguments required")
CompareFailed == Error("data and hash arguments required")
\* the store's error object, returned as it is
StoreError == Error("<store error object>")

\* a rejected promise nobody caught: the caller of the function gets the exception
Thrown == [kind |-> "throw"]

Idle == [pc |-> "idle"]

\* a finished invocation: what it was called with, what it saw, what it returned
Done(op, fields, result) ==
  [op |-> op, in |-> fields, result |-> result]

\* no invocation has returned yet
Nothing == [op |-> "none"]

\* an invocation either goes on to its next await or returns to its caller
Step(p, next) ==
  IF "pc" \in DOMAIN next
  THEN proc' = [proc EXCEPT ![p] = next] /\ UNCHANGED last
  ELSE proc' = [proc EXCEPT ![p] = Idle] /\ last' = next

(* ---------------------------------------------------------------- signupUser *)
\* the spread written last, so that the caller's fields win
NewRow_CallerWins(user, hashedPassword, now) ==
  [user EXCEPT !.password = hashedPassword,
               !.password_fresh = now,
               !.password_expire = now + 3]

\* { ...user, password: hashedPassword, approved: false, password_fresh, password_expire }
NewRow(user, hashedPassword, now) ==
  [user EXCEPT !.password = hashedPassword,
               !.approved = FALSE,
               !.password_fresh = now,
               !.password_expire = now + 3]

\* signupUser up to its first await: the existence check by email. A rejected
\* call is caught; an {error} result leaves `existing` null like an empty result.
SignupCheck(p, user, outcome) ==
  /\ proc[p].pc = "idle"
  /\ calls < MaxCalls
  /\ calls' = calls + 1
  /\ LET res == IF outcome = "ok" THEN maybeSingle(SelectByEmail(store, user.email))
                ELSE Failed
         existing == res.data
         seen == [user |-> user, hadRow |-> SelectByEmail(store, user.email) # {},
                  lookup |-> outcome, inserted |-> FALSE]
     IN  Step(p, IF outcome = "throw" THEN Done("signup", seen, FetchFailed)
                 ELSE IF existing # Null THEN Done("signup", seen, DuplicateEmail)
                 ELSE [pc |-> "signup_insert", in |-> seen])
  /\ UNCHANGED store

\* signupUser from bcrypt.hash to its return: hash, stamp, insert
SignupInsert(p, hashOutcome, salt, now, outcome) ==
  /\ proc[p].pc = "signup_insert"
  /\ LET seen == proc[p].in
         user == seen.user
         hashedPassword == bcryptHash(user.password, salt)
     IN  IF hashOutcome = "throw" \/ user.password = Missing
         THEN /\ Step(p, Done("signup", seen, HashFailed))
              /\ UNCHANGED store
         ELSE IF outcome = "ok"
         THEN /\ store' = Insert(store, NewRow(user, hashedPassword, now))
              /\ Step(p, Done("signup", [seen EXCEPT !.inserted = TRUE], SignupOk))
         ELSE /\ Step(p, Done("signup", seen,
                              IF outcome = "error" THEN StoreError ELSE FetchFailed))
              /\ UNCHANGED store
  /\ UNCHANGED calls

(* ---------------------------------------------------------------- POST /api/login *)
\* the words of the messages loginUserByUsername can return
MessageWords(msg) ==
  CASE msg = "No account found" -> <<"No", "account", "found">>
    [] msg = "Account awaiting approval" -> <<"Account", "awaiting", "approval">>
    [] msg = "Incorrect password" -> <<"Incorrect", "password">>
    [] msg = "fetch failed" -> <<"fetch", "failed">>
    [] msg = "data and salt arguments required"
         -> <<"data", "and", "salt", "arguments", "required">>
    [] msg = "data and hash arguments required"
         -> <<"data", "and", "hash", "arguments", "required">>

\* result.error.includes(word)
includes(msg, word) == \E i \in DOMAIN MessageWords(msg) : MessageWords(msg)[i] = word

\* a route that answers every error with the same status
LoginResponse_Always401(result) ==
  IF result.kind = "throw"
  THEN [status |-> 500, body |-> [error |-> "Server error logging in"]]
  ELSE IF result.kind = "error"
  THEN [status |-> 401, body |-> [error |-> result.error]]
  ELSE [status |-> 200, body |-> [user |-> result.user]]

\* what the route answers for a result of loginUserByUsername
LoginResponse(result) ==
  IF result.kind = "throw"
  THEN [status |-> 500, body |-> [error |-> "Server error logging in"]]
  ELSE IF result.kind = "error"
  THEN [status |-> IF includes(result.error, "approval") THEN 403 ELSE 401,
        body |-> [error |-> result.error]]
  ELSE [status |-> 200, body |-> [user |-> result.user]]

\* a finished login, with the answer of the route that called it
LoginDone(fields, result) ==
  [op |-> "login", in |-> fields, result |-> result, response |-> LoginResponse(result)]

(* ---------------------------------------------------------------- loginUserByUsername *)
\* user.password || ''
Stored(user) == IF user.password = Missing THEN <<>> ELSE user.password

\* stored.startsWith('$2')
isHashed(stored) == startsWith(stored, HashMarker)

\* isHashed ? await bcrypt.compare(password, stored) : stored === password
Valid(password, stored) ==
  IF isHashed(stored) THEN bcryptCompare(password, stored) ELSE stored = password

\* the row returned as it was read
SafeUser_Whole(user) == user

\* const { password: _p, ...safeUser } = user
SafeUser(user) == [f \in DOMAIN user \ {"password"} |-> user[f]]

\* the approval gate left out
LoginVerdict_NoGate(user, password) ==
  IF isHashed(Stored(user)) /\ password = Missing THEN "throw"
  ELSE IF ~Valid(password, Stored(user)) THEN "incorrect"
  ELSE IF isHashed(Stored(user)) THEN "user"
  ELSE "migrate"

\* the credential checked before the approval gate
LoginVerdict_CredentialFirst(user, password) ==
  IF isHashed(Stored(user)) /\ password = Missing THEN "throw"
  ELSE IF ~Valid(password, Stored(user)) THEN "incorrect"
  ELSE IF ~user.approved THEN "pending"
  ELSE IF isHashed(Stored(user)) THEN "user"
  ELSE "migrate"

\* the checks between the lookup and the migration, in the order of the code:
\* approval gate, then the credential (bcrypt.compare rejects a missing password)
LoginVerdict(user, password) ==
  IF ~user.approved THEN "pending"
  ELSE IF isHashed(Stored(user)) /\ password = Missing THEN "throw"
  ELSE IF ~Valid(password, Stored(user)) THEN "incorrect"
  ELSE IF isHashed(Stored(user)) THEN "user"
  ELSE "migrate"

\* the rows whose username equals `username` ignoring case
ExactMatches(s, username) ==
  {r \in Rows(s) : r.username # Missing /\ toLowerCase(r.username) = toLowerCase(username)}

\* loginUserByUsername up to the migration: lookup by username, gate, verify
LoginLookup(p, username, password, outcome) ==
  /\ proc[p].pc = "idle"
  /\ calls < MaxCalls
  /\ calls' = calls + 1
  /\ LET res == IF outcome = "ok" THEN single(SelectByUsername(store, username))
                ELSE Failed
         user == res.data
         seen == [username |-> username, password |-> password, user |-> user,
                  exact |-> Cardinality(ExactMatches(store, username)),
                  migration |-> "none"]
         verdict == LoginVerdict(user, password)
     IN  Step(p, IF outcome = "throw" THEN LoginDone(seen, FetchFailed)
                 ELSE IF res.error \/ user = Null THEN LoginDone(seen, AccountNotFound)
                 ELSE IF verdict = "pending" THEN LoginDone(seen, PendingApproval)
                 ELSE IF verdict = "throw" THEN LoginDone(seen, CompareFailed)
                 ELSE IF verdict = "incorrect" THEN LoginDone(seen, IncorrectPassword)
                 ELSE IF verdict = "user"
                   THEN LoginDone(seen, [kind |-> "user", user |-> SafeUser(user)])
                 ELSE [pc |-> "login_migrate", in |-> seen])
  /\ UNCHANGED store

\* the legacy branch: bcrypt.hash, the update keyed by id (its result is not
\* looked at), then the return; a rejection of either lands in the catch
LoginMigrate(p, hashOutcome, salt, outcome) ==
  /\ proc[p].pc = "login_migrate"
  /\ LET seen == proc[p].in
         user == seen.user
         newHash == bcryptHash(seen.password, salt)
     IN  IF hashOutcome = "throw"
         THEN /\ Step(p, LoginDone([seen EXCEPT !.migration = "hash threw"],
                                   HashFailed))
              /\ UNCHANGED store
         ELSE IF outcome = "throw"
         THEN /\ Step(p, LoginDone([seen EXCEPT !.migration = "update threw"],
                                   FetchFailed))
              /\ UNCHANGED store
         ELSE /\ store' = IF outcome = "ok" THEN UpdatePassword(store, user.id, newHash)
                          ELSE store
              /\ Step(p, LoginDone([seen EXCEPT !.migration =
                                      IF outcome = "ok" THEN "applied" ELSE "update failed"],
                                   [kind |-> "user", user |-> SafeUser(user)]))
  /\ UNCHANGED calls

(* ---------------------------------------------------------------- ensureUniqueUsername *)
\* a probe that stops at the first suffix without looking
Probe_First(existing, base, n) == n

\* while (existing.has(`${base}-${n}`)) n++
RECURSIVE Probe(_, _, _)
Probe(existing, base, n) ==
  IF (base \o <<"-">> \o Decimal(n)) \in existing
  THEN Probe(existing, base, n + 1)
  ELSE n

\* the early return handing back the lowercased name
uniqueUsername_Lowercased(desired, res) ==
  IF res.error \/ res.data = {} THEN toLowerCase(desired)
  ELSE LET existing == {toLowerCase(IF u = Missing THEN <<>> ELSE u) : u \in res.data}
       IN  IF toLowerCase(desired) \notin existing THEN desired
           ELSE toLowerCase(desired) \o <<"-">>
                  \o Decimal(Probe(existing, toLowerCase(desired), 2))

\* the function after its query: res.data is the set of usernames returned
uniqueUsername(desired, res) ==
  IF res.error \/ res.data = {} THEN desired
  ELSE LET existing == {toLowerCase(IF u = Missing THEN <<>> ELSE u) : u \in res.data}
       IN  IF toLowerCase(desired) \notin existing THEN desired
           ELSE toLowerCase(desired) \o <<"-">>
                  \o Decimal(Probe(existing, toLowerCase(desired), 2))

\* .select('username').ilike('username', `${desired}%`)
SelectUsernamesByPrefix(s, desired) ==
  {r.username : r \in SelectByUsername(s, desired \o <<"%">>)}

\* ensureUniqueUsername: one query, then the choice of the name; it has no
\* try/catch, so a rejected query rejects the call
EnsureUniqueUsername(p, desired, outcome) ==
  /\ proc[p].pc = "idle"
  /\ calls < MaxCalls
  /\ calls' = calls + 1
  /\ LET res == IF outcome = "ok"
                THEN [data |-> SelectUsernamesByPrefix(store, desired), error |-> FALSE]
                ELSE [data |-> {}, error |-> TRUE]
         seen == [desired |-> desired, res |-> res, outcome |-> outcome]
     IN  Step(p, IF outcome = "throw"
                 THEN Done("ensureUniqueUsername", seen, Thrown)
                 ELSE Done("ensureUniqueUsername", seen,
                           [kind |-> "name", name |-> uniqueUsername(desired, res)]))
  /\ UNCHANGED store

(* ---------------------------------------------------------------- getRole / isActive *)
\* the message of the error .single() reports for no row or several rows
NoSingleRow == Error("JSON object requested, multiple (or no) rows returned")

\* the message of the error a failed query reports
QueryFailed == Error("<store error message>")

\* if (error || !data) return { error: error?.message || fallback }
LookupError(res, failed, fallback) ==
  IF failed THEN QueryFailed
  ELSE IF res.error THEN NoSingleRow
  ELSE Error(fallback)

\* getRole: one query by email; nothing catches a rejection
GetRole(p, email, outcome) ==
  /\ proc[p].pc = "idle"
  /\ calls < MaxCalls
  /\ calls' = calls + 1
  /\ LET res == IF outcome = "ok" THEN single(SelectByEmail(store, email)) ELSE Failed
         seen == [email |-> email, hadRow |-> SelectByEmail(store, email) # {},
                  outcome |-> outcome]
     IN  Step(p, IF outcome = "throw" THEN Done("getRole", seen, Thrown)
                 ELSE IF res.error \/ res.data = Null
                   THEN Done("getRole", seen,
                             LookupError(res, outcome = "error", "Role not found"))
                 ELSE Done("getRole", seen, [kind |-> "role", role |-> res.data.role]))
  /\ UNCHANGED store

\* isActive: one query by email; nothing catches a rejection
IsActive(p, email, outcome) ==
  /\ proc[p].pc = "idle"
  /\ calls < MaxCalls
  /\ calls' = calls + 1
  /\ LET res == IF outcome = "ok" THEN single(SelectByEmail(store, email)) ELSE Failed
         seen == [email |-> email, hadRow |-> SelectByEmail(store, email) # {},
                  outcome |-> outcome]
     IN  Step(p, IF outcome = "throw" THEN Done("isActive", seen, Thrown)
                 ELSE IF res.error \/ res.data = Null
                   THEN Done("isActive", seen,
                             LookupError(res, outcome = "error", "User not found"))
                 ELSE Done("isActive", seen,
                           [kind |-> "active", active |-> res.data.active]))
  /\ UNCHANGED store

(* ---------------------------------------------------------------- approve / reject *)
\* GET /api/approve?email=
Approve(email) ==
  /\ store' = UpdateApproved(store, email, TRUE)
  /\ store' # store
  /\ UNCHANGED <<proc, last, calls>>

\* GET /api/reject?email=
Reject(email) ==
  /\ store' = UpdateApproved(store, email, FALSE)
  /\ store' # store
  /\ UNCHANGED <<proc, last, calls>>

(* ---------------------------------------------------------------- specification *)
Init ==
  /\ store \in InitStores
  /\ proc = [p \in Procs |-> Idle]
  /\ last = Nothing
  /\ calls = 0

Next ==
  \/ \E p \in Procs, user \in Candidates, outcome \in Outcomes :
       SignupCheck(p, user, outcome)
  \/ \E p \in Procs, h \in HashOutcomes, salt \in Salts, now \in Times, outcome \in Outcomes :
       SignupInsert(p, h, salt, now, outcome)
  \/ \E p \in Procs, username \in LoginNames, password \in Passwords, outcome \in Outcomes :
       LoginLookup(p, username, password, outcome)
  \/ \E p \in Procs, h \in HashOutcomes, salt \in Salts, outcome \in Outcomes :
       LoginMigrate(p, h, salt, outcome)
  \/ \E p \in Procs, desired \in Usernames, outcome \in Outcomes :
       EnsureUniqueUsername(p, desired, outcome)
  \/ \E p \in Procs, email \in Emails, outcome \in Outcomes : GetRole(p, email, outcome)
  \/ \E p \in Procs, email \in Emails, outcome \in Outcomes : IsActive(p, email, outcome)
  \/ \E email \in Emails : Approve(email)
  \/ \E email \in Emails : Reject(email)

Spec == Init /\ [][Next]_vars

(* ---------------------------------------------------------------- no failures *)
\* the same requests against a store and a bcrypt that always answer
NextReliable ==
  \/ \E p \in Procs, user \in Candidates : SignupCheck(p, user, "ok")
  \/ \E p \in Procs, salt \in Salts, now \in Times : SignupInsert(p, "ok", salt, now, "ok")
  \/ \E p \in Procs, username \in LoginNames, password \in Passwords :
       LoginLookup(p, username, password, "ok")
  \/ \E p \in Procs, salt \in Salts : LoginMigrate(p, "ok", salt, "ok")
  \/ \E p \in Procs, desired \in Usernames : EnsureUniqueUsername(p, desired, "ok")
  \/ \E p \in Procs, email \in Emails : GetRole(p, email, "ok")
  \/ \E p \in Procs, email \in Emails : IsActive(p, email, "ok")
  \/ \E email \in Emails : Approve(email)
  \/ \E email \in Emails : Reject(email)

SpecReliable == Init /\ [][NextReliable]_vars

(* ---------------------------------------------------------------- resolver alone *)
\* usernames the table may hold when a name is allocated
ResolveNames == <<<<"a">>, <<"A">>, <<"a", "-", "2">>, <<"a", "-", "3">>, <<"a", "b">>, <<"b">>>>

\* names asked for: plain, upper case, one that is a prefix of nothing stored
Desired == {<<"a">>, <<"A">>, <<"b">>, <<"B">>, <<"a", "-", "2">>}

\* one pending hashed row per username of `names`
StoreOf(names) ==
  [i \in 1..Len(names) |->
     [id |-> i, email |-> "e1", username |-> names[i],
      password |-> bcryptHash(<<"p">>, "s"), approved |-> FALSE,
      password_fresh |-> 1, password_expire |-> 4,
      role |-> "user", active |-> TRUE]]

ResolveStores ==
  {StoreOf(SelectSeq(ResolveNames, LAMBDA n : n \in S)) :
     S \in SUBSET {ResolveNames[i] : i \in DOMAIN ResolveNames}}

InitResolve ==
  /\ store \in ResolveStores
  /\ proc = [p \in Procs |-> Idle]
  /\ last = Nothing
  /\ calls = 0

NextResolve ==
  \E p \in Procs, desired \in Desired, outcome \in Outcomes :
    EnsureUniqueUsername(p, desired, outcome)

SpecResolve == InitResolve /\ [][NextResolve]_vars

(* ---------------------------------------------------------------- baseUsername *)
\* the characters \s matches
IsSpace(c) == c \in {" ", "\t"}

RECURSIVE trimStart(_)
trimStart(s) == IF s # <<>> /\ IsSpace(Head(s)) THEN trimStart(Tail(s)) ELSE s

RECURSIVE trimEnd(_)
trimEnd(s) ==
  IF s # <<>> /\ IsSpace(s[Len(s)]) THEN trimEnd(SubSeq(s, 1, Len(s) - 1)) ELSE s

\* a trim left out
trim_None(s) == s

\* String.prototype.trim
trim(s) == trimEnd(trimStart(s))

\* .charAt(0)
charAt0(s) == IF s = <<>> THEN <<>> ELSE <<Head(s)>>

\* .replace(/\s+/g, '')
RECURSIVE removeSpaces(_)
removeSpaces(s) ==
  IF s = <<>> THEN <<>>
  ELSE IF IsSpace(Head(s)) THEN removeSpaces(Tail(s))
  ELSE <<Head(s)>> \o removeSpaces(Tail(s))

\* .padStart(2, '0')
RECURSIVE padStart2(_)
padStart2(s) == IF Len(s) >= 2 THEN s ELSE padStart2(<<"0">> \o s)

\* .slice(-2)
sliceLast2(s) == IF Len(s) <= 2 THEN s ELSE SubSeq(s, Len(s) - 1, Len(s))

\* (name || '')
OrEmpty(name) == IF name = Missing THEN <<>> ELSE name

\* baseUsername(first_name, last_name, when); when.month is getMonth(), 0..11
baseUsername(first_name, last_name, when) ==
  LET mm == padStart2(Decimal(when.month + 1))
      yy == sliceLast2(Decimal(when.year))
      f == charAt0(trim(OrEmpty(first_name)))
      l == removeSpaces(trim(OrEmpty(last_name)))
  IN  toLowerCase(f \o l \o mm \o yy)

NameChars == {"A", "b", " "}

\* a missing name, the names of up to two characters, and three longer ones
Names ==
  {Missing, <<" ", "A", "b">>, <<"A", " ", "b">>, <<"A", "b", " ">>}
    \cup UNION {[1..n -> NameChars] : n \in {0, 1, 2}}

\* reference dates: getMonth() and getFullYear()
Dates == [month : {8, 9}, year : {1999, 2005}]

\* a call of the pure function
BaseUsername(first_name, last_name, when) ==
  /\ calls < MaxCalls
  /\ calls' = calls + 1
  /\ last' = Done("baseUsername",
                  [first_name |-> first_name, last_name |-> last_name, when |-> when],
                  [kind |-> "name", name |-> baseUsername(first_name, last_name, when)])
  /\ UNCHANGED <<store, proc>>

InitDerive ==
  /\ store = <<>>
  /\ proc = [p \in Procs |-> Idle]
  /\ last = Nothing
  /\ calls = 0

NextDerive ==
  \E first_name \in Names, last_name \in Names, when \in Dates :
    BaseUsername(first_name, last_name, when)

SpecDerive == InitDerive /\ [][NextDerive]_vars

(* ---------------------------------------------------------------- properties *)
\* the invocation that returned last
LastIs(op) == last.op = op

\* a login whose lookup returned a row
LoginFound == LastIs("login") /\ last.in.user # Null

\* a login that found an approved row with a legacy credential equal to the
\* supplied plaintext
LegacyMatch ==
  /\ LoginFound
  /\ last.in.user.approved
  /\ ~isHashed(Stored(last.in.user))
  /\ Stored(last.in.user) = last.in.password

UserResult == last.result.kind = "user"

\* C1: a signupUser call whose email already has a row returns the
\* duplicate-email error and inserts nothing (stated for the calls in which
\* neither a store call nor the hashing failed).
C1_DuplicateEmailRejected ==
  (/\ LastIs("signup")
   /\ last.in.hadRow
   /\ last.in.lookup = "ok"
   /\ last.result \notin {FetchFailed, HashFailed, StoreError}) =>
    (last.result = DuplicateEmail /\ ~last.in.inserted)

\* C2: the store holds at most one row per email.
C2_OneRowPerEmail ==
  \A i, j \in DOMAIN store : store[i].email = store[j].email => i = j

\* C3: a login whose lookup found a row that is not approved returns the
\* pending-approval error, whatever password was supplied.
C3_PendingApprovalGate ==
  (LoginFound /\ ~last.in.user.approved) => last.result = PendingApproval

\* C3 witness: an unapproved account, the right password, the pending error
C3_Witness ==
  /\ LoginFound
  /\ ~last.in.user.approved
  /\ Valid(last.in.password, Stored(last.in.user))
  /\ last.result = PendingApproval

\* C4: a successful login returns the fields of the row it read, all but the
\* password, on the hashed path and on the legacy path alike.
C4_NoPasswordInResult ==
  (LastIs("login") /\ UserResult) =>
    /\ "password" \notin DOMAIN last.result.user
    /\ DOMAIN last.result.user = DOMAIN last.in.user \ {"password"}
    /\ \A f \in DOMAIN last.result.user : last.result.user[f] = last.in.user[f]

\* C4 witness: a successful login whose migration write ran
C4_Witness ==
  /\ LastIs("login")
  /\ UserResult
  /\ last.in.migration = "applied"
  /\ last.in.user.password # Missing

\* C5: every row a step adds to the store is pending (approved = false) and
\* holds a hashed credential of the supplied password, not the password itself,
\* whatever the candidate carried.
C5_InsertedRowPendingAndHashed ==
  [][\A i \in DOMAIN store' :
       i \notin DOMAIN store =>
         /\ store'[i].approved = FALSE
         /\ isHashed(store'[i].password)
         /\ LastIs("signup")' /\ last'.in.inserted
         /\ store'[i].password # last'.in.user.password
         /\ bcryptCompare(last'.in.user.password, store'[i].password)]_vars

\* C5 witness: a signup that supplied approved = true has inserted its row
C5_Witness ==
  /\ LastIs("signup")
  /\ last.in.inserted
  /\ ~last.in.hadRow
  /\ last.in.user.approved
  /\ store # <<>>
  /\ store[Len(store)].email = last.in.user.email
  /\ ~store[Len(store)].approved

\* C6: for an approved account found by username and a supplied plaintext,
\* the login succeeds if and only if the plaintext verifies against the stored
\* credential (hash comparison for a marked value, equality for any other),
\* and returns IncorrectPassword otherwise.
C6_LoginIffVerified ==
  (LoginFound /\ last.in.user.approved /\ last.in.password # Missing) =>
    IF Valid(last.in.password, Stored(last.in.user))
    THEN UserResult
    ELSE last.result = IncorrectPassword

C8_MigrationFailureSwallowed ==
  (LastIs("login") /\ last.in.migration \in {"hash threw", "update failed", "update threw"}) =>
    (UserResult /\ last.result.user = SafeUser(last.in.user))

\* C9: no two rows have usernames that are equal ignoring case.
C9_UsernamesUniqueIgnoringCase ==
  \A i, j \in DOMAIN store :
    (/\ store[i].username # Missing
     /\ toLowerCase(store[i].username) = toLowerCase(store[j].username)) => i = j

\* the lowercased usernames of the snapshot the last allocation saw
Snapshot == {toLowerCase(u) : u \in last.in.res.data}

\* an allocation whose query did not fail
Resolved == LastIs("ensureUniqueUsername") /\ last.in.outcome = "ok"

\* name is base-n for the smallest n >= 2 whose base-n is not in the snapshot
SmallestFreeSuffix(name, base) ==
  \E n \in 2..(Cardinality(Snapshot) + 2) :
    /\ name = base \o <<"-">> \o Decimal(n)
    /\ toLowerCase(base \o <<"-">> \o Decimal(n)) \notin Snapshot
    /\ \A m \in 2..(n - 1) : toLowerCase(base \o <<"-">> \o Decimal(m)) \in Snapshot

\* C10 as claimed: the result is desired when desired is free, else desired-n
\* for the smallest free n >= 2; either way it is not in the snapshot.
C10_ResolveDesiredSuffix ==
  Resolved =>
    /\ IF toLowerCase(last.in.desired) \notin Snapshot
       THEN last.result.name = last.in.desired
       ELSE SmallestFreeSuffix(last.result.name, last.in.desired)
    /\ toLowerCase(last.result.name) \notin Snapshot

\* C10 as amended: the suffixed result is built on the lowercased desired name.
C10_ResolveLowercasedSuffix ==
  Resolved =>
    /\ IF toLowerCase(last.in.desired) \notin Snapshot
       THEN last.result.name = last.in.desired
       ELSE SmallestFreeSuffix(last.result.name, toLowerCase(last.in.desired))
    /\ toLowerCase(last.result.name) \notin Snapshot

\* C10 witness: an upper-case name taken twice over is given the third suffix
C10_Witness ==
  /\ Resolved
  /\ last.in.desired = <<"A">>
  /\ last.result.name = <<"a", "-", "3">>

\* C11: a login whose username equals, ignoring case, the username of no row
\* or of several rows returns AccountNotFound and writes nothing.
C11_NotFoundUnlessOneMatch ==
  (LastIs("login") /\ last.in.exact # 1) =>
    (last.result = AccountNotFound /\ last.in.migration = "none")

\* a step in which a signupUser invocation returns
SignupReturns ==
  /\ LastIs("signup")'
  /\ \/ calls' = calls + 1 /\ proc' = proc
     \/ \E p \in Procs : proc[p].pc = "signup_insert" /\ proc'[p].pc = "idle"

\* C12: signupUser returns the success acknowledgment exactly when that
\* invocation appended one row; when it returns an error the store is as it was.
C12_SuccessIffInserted ==
  [][SignupReturns =>
       IF last'.result = SignupOk
       THEN /\ last'.in.inserted
            /\ Len(store') = Len(store) + 1
            /\ SubSeq(store', 1, Len(store)) = store
            /\ store'[Len(store')].email = last'.in.user.email
       ELSE /\ last'.result.kind = "error"
            /\ ~last'.in.inserted
            /\ store' = store]_vars

\* C12 witness: a signup answered by the store has returned success, its row
\* the newest of the table
C12_Witness ==
  /\ LastIs("signup")
  /\ last.result = SignupOk
  /\ last.in.lookup = "ok"
  /\ last.in.inserted
  /\ store # <<>>
  /\ store[Len(store)].email = last.in.user.email

\* a step of the approve or reject route
ApprovalStep ==
  /\ \E email \in Emails, flag \in BOOLEAN : store' = UpdateApproved(store, email, flag)
  /\ UNCHANGED <<proc, last, calls>>

\* C13: the approved flag of an existing row changes only in a step of the
\* approve or reject route, a new row starts unapproved, and a login returns a
\* user only for a row it read as approved.
C13_ApprovedOnlyByApproval ==
  [][/\ \A i \in DOMAIN store' :
          IF i \in DOMAIN store
          THEN store'[i].approved # store[i].approved => ApprovalStep
          ELSE ~store'[i].approved
     /\ (LastIs("login")' /\ last'.result.kind = "user") => last'.in.user.approved]_vars

\* C13 witness: a login returned the user of a row that a signup created and
\* an approval approved
C13_Witness ==
  /\ LastIs("login")
  /\ UserResult
  /\ last.in.user.password_fresh \in Times
  /\ isHashed(last.in.user.password)

\* the workflow entry points
Workflows == {"signup", "login", "getRole", "isActive"}

\* C14: every workflow entry point turns a failure of the store or of the
\* hashing, a rejected call included, into an {error} result: none throws.
C14_NoWorkflowThrows ==
  (last.op \in Workflows) => last.result.kind # "throw"

\* C15: getRole and isActive for an email that has no row return an {error}
\* result, never a role or an active flag and never an exception.
C15_UnknownEmailIsError ==
  (last.op \in {"getRole", "isActive"} /\ ~last.in.hadRow) =>
    last.result.kind = "error"

\* the value of a decimal digit character
DigitValue(c) == CHOOSE d \in 0..9 : Digits[d + 1] = c

\* the characters of a name that are no whitespace, in order
Solid(name) == SelectSeq(OrEmpty(name), LAMBDA c : ~IsSpace(c))

LoginLookupStep ==
  /\ calls' = calls + 1
  /\ \/ LastIs("login")' /\ proc' = proc
     \/ \E p \in Procs : proc[p].pc = "idle" /\ proc'[p].pc = "login_migrate"

\* the migration step of the login running in p
LoginMigrateStep(p) == proc[p].pc = "login_migrate" /\ proc'[p].pc = "idle"

\* C17: a login changes the store only on the legacy path (the row it read is
\* approved, its credential is not hashed and equals the plaintext), and then
\* only the password of the row with the id it read; a login that fails, or
\* that read a hashed credential, leaves the store as it was; no row goes away.
C17_LoginWritesOnlyMigration ==
  [][/\ LoginLookupStep => store' = store
     /\ \A p \in Procs : LoginMigrateStep(p) =>
          LET user == proc[p].in.user
          IN  /\ user.approved
              /\ ~isHashed(Stored(user))
              /\ Stored(user) = proc[p].in.password
              /\ last'.result.kind # "user" => store' = store
              /\ DOMAIN store' = DOMAIN store
              /\ \A i \in DOMAIN store :
                   \/ store'[i] = store[i]
                   \/ /\ store[i].id = user.id
                      /\ store'[i] = [store[i] EXCEPT !.password = store'[i].password]]_vars

\* C17 witness: a migration was applied in a store of two rows, and the other
\* row holds what signup gave it
C17_Witness ==
  /\ LastIs("login")
  /\ last.in.migration = "applied"
  /\ Len(store) = 2
  /\ isHashed(store[last.in.user.id].password)
  /\ \E i \in DOMAIN store :
       /\ store[i].id # last.in.user.id
       /\ ~bcryptCompare(last.in.password, store[i].password)

\* C18: when the prefix query answers with an error, or with no rows,
\* ensureUniqueUsername returns desired as it was given, whatever the store holds.
C18_FailedOrEmptyQueryKeepsDesired ==
  (/\ LastIs("ensureUniqueUsername")
   /\ last.in.outcome # "throw"
   /\ (last.in.res.error \/ last.in.res.data = {})) =>
    last.result = [kind |-> "name", name |-> last.in.desired]

\* C18 witness: the query failed, the name asked for is upper case and taken
\* in the store, and it comes back as it was
C18_Witness ==
  /\ LastIs("ensureUniqueUsername")
  /\ last.in.outcome = "error"
  /\ last.in.desired = <<"A">>
  /\ \E i \in DOMAIN store : toLowerCase(store[i].username) = <<"a">>
  /\ last.result.name = <<"A">>

\* C19: a row whose stored password is hashed keeps a hashed password through
\* every step (signup, login and its migration write, approve, reject), no row
\* goes away, and a row that appears is hashed from the start.
C19_HashedStaysHashed ==
  [][/\ DOMAIN store \subseteq DOMAIN store'
     /\ \A i \in DOMAIN store' :
          IF i \in DOMAIN store
          THEN isHashed(Stored(store[i])) => isHashed(Stored(store'[i]))
          ELSE isHashed(Stored(store'[i]))]_vars

\* C19 witness: a row already rehashed by one login while another login, which
\* read it in its legacy form, is still to write its own migration
C19_Witness ==
  \E p \in Procs :
    /\ proc[p].pc = "login_migrate"
    /\ ~isHashed(Stored(proc[p].in.user))
    /\ isHashed(Stored(store[proc[p].in.user.id]))
    /\ LastIs("login")
    /\ last.in.migration = "applied"

\* C20: the route answers 403 exactly for the pending-approval result, 401 for
\* every other error result, and hands out the user record exactly when the
\* workflow returned a user.
C20_LoginStatusMapping ==
  LastIs("login") =>
    /\ (last.response.status = 403) <=> (last.result = PendingApproval)
    /\ (last.result.kind = "error" /\ last.result # PendingApproval) =>
         (last.response.status = 401 /\ last.response.body = [error |-> last.result.error])
    /\ ("user" \in DOMAIN last.response.body) <=> UserResult
    /\ UserResult =>
         (last.response.status = 200 /\ last.response.body = [user |-> last.result.user])

\* C20 witness: a login on a pending account, answered with 403
C20_Witness ==
  /\ LoginFound
  /\ last.result = PendingApproval
  /\ last.response.status = 403
  /\ last.response.body = [error |-> "Account awaiting approval"]

====
